---- MODULE Spec2Model ----
(***************************************************************************)
(* Model of examples/esp32/scripts/generate_matrix.py: one run of main()   *)
(* over a parsed app_config.yml document.                                  *)
(*                                                                         *)
(* Python values are represented as follows.                               *)
(*   - a str that the code transforms character by character (an ESP-IDF   *)
(*     version identifier) is a sequence of one-character strings;         *)
(*   - every other str is a TLA+ string;                                   *)
(*   - an optional mapping key is a sequence of length 0 (key absent) or 1 *)
(*     (key present, holding the value);                                   *)
(*   - a list element whose Python type the code inspects with isinstance  *)
(*     is a record tagged with its kind;                                   *)
(*   - a dict keeps its insertion order, so the apps mapping is a sequence *)
(*     of app records, each carrying its key as the field name.            *)
(***************************************************************************)
EXTENDS Integers, Sequences, FiniteSets, TLC

----------------------------------------------------------------------------
(* Bounds of the explored inputs *)

MaxApps == 2     \* apps in a document
MaxLen == 2      \* length of a version list, of a build-type list, of a nested list
MaxRules == 2    \* exclusion rules in a document
MaxIdLen == 2    \* characters of a version identifier, where all are enumerated

----------------------------------------------------------------------------
(* Python helpers *)

None == <<>>
Some(x) == <<x>>
Has(opt) == Len(opt) = 1
Get(opt) == opt[1]

\* str.replace(old, new) for one-character old and new: every occurrence
Replace(s, old, new) == [i \in 1..Len(s) |-> IF s[i] = old THEN new ELSE s[i]]

\* Extend with the new elements put in front of the list
ExtendAtFront(list, more) == more \o list

\* list.append of every element of more, in order
Extend(list, more) == list \o more

RECURSIVE Concat(_)
\* what a loop leaves in a list to which iteration k appends ss[k]
Concat(ss) == IF ss = <<>> THEN <<>> ELSE Extend(Head(ss), Concat(Tail(ss)))

\* a list element that is a str / that is a list of str
StrElem(s) == [kind |-> "str", str |-> s, items |-> <<>>]
ListElem(xs) == [kind |-> "list", str |-> "", items |-> xs]

----------------------------------------------------------------------------
(* generate_matrix *)

\* "release/v5.5" and "release/v5.4"
V55 == <<"r","e","l","e","a","s","e","/","v","5",".","5">>
V54 == <<"r","e","l","e","a","s","e","/","v","5",".","4">>

DefaultIdfVersions == <<V55>>
DefaultBuildTypes == <<"Debug", "Release">>
DefaultTarget == "esp32c6"

GlobalIdfVersions(cfg) ==
    LET m == Get(cfg.metadata)
    IN  IF Has(m.idf_versions) THEN Get(m.idf_versions) ELSE DefaultIdfVersions

GlobalBuildTypesPerIdf(cfg) ==
    LET m == Get(cfg.metadata)
    IN  IF Has(m.build_types) THEN Get(m.build_types) ELSE <<DefaultBuildTypes>>

Target(cfg) ==
    LET m == Get(cfg.metadata)
    IN  IF Has(m.target) THEN Get(m.target) ELSE DefaultTarget

\* BuildTypesForIndex with the comparison off by one
BuildTypesForIndexOffByOne(per_idf, n) ==
    IF n < Len(per_idf) THEN per_idf[n] ELSE DefaultBuildTypes

\* the build types the loop assigns at 1-based position n of the global
\* version list ("if i < len(global_build_types_per_idf)", i = n - 1)
BuildTypesForIndex(per_idf, n) ==
    IF n <= Len(per_idf) THEN per_idf[n] ELSE DefaultBuildTypes

RECURSIVE IdfToBuildTypesAfter(_, _, _)
\* the dict idf_to_build_types after the first n iterations of the loop that
\* fills it: a later assignment to the same key replaces the earlier one
IdfToBuildTypesAfter(versions, per_idf, n) ==
    IF n = 0 THEN [v \in {} |-> <<>>]
    ELSE LET prev == IdfToBuildTypesAfter(versions, per_idf, n - 1)
             val == BuildTypesForIndex(per_idf, n)
         IN  [v \in DOMAIN prev \cup {versions[n]} |->
                 IF v = versions[n] THEN val ELSE prev[v]]

IdfToBuildTypes(cfg) ==
    IdfToBuildTypesAfter(GlobalIdfVersions(cfg), GlobalBuildTypesPerIdf(cfg),
                         Len(GlobalIdfVersions(cfg)))

\* config.get('ci_config', {}).get('exclude_combinations', []) or []
\* (a value that is not a list is kept when it is truthy)
Truthy(x) ==
    IF x.kind = "list" THEN x.items # <<>>
    ELSE IF x.kind = "null" THEN FALSE
    ELSE x.truthy

EmptyList == [kind |-> "list", items |-> <<>>, truthy |-> FALSE]

ExcludeCombinations(cfg) ==
    IF ~Has(cfg.ci_config) THEN EmptyList
    ELSE LET cc == Get(cfg.ci_config)
         IN  IF ~Has(cc.exclude_combinations) THEN EmptyList
             ELSE IF Truthy(Get(cc.exclude_combinations))
                  THEN Get(cc.exclude_combinations)
                  ELSE EmptyList

\* RuleMatches with any() in the place of all()
RuleMatchesAny(exc, entry) ==
    \E k \in DOMAIN exc : k \in DOMAIN entry /\ entry[k] = exc[k]

\* all(k in entry and entry[k] == v for k, v in exc.items())
RuleMatches(exc, entry) ==
    \A k \in DOMAIN exc : k \in DOMAIN entry /\ entry[k] = exc[k]

\* is_excluded(entry) over a list of rules
IsExcluded(rules, entry) ==
    \E r \in 1..Len(rules) : RuleMatches(rules[r], entry)

\* CiEnabled that never skips an app
CiEnabledAlways(app) == TRUE

\* app_config.get('ci_enabled', True), taken for its truth value
CiEnabled(app) == IF Has(app.ci_enabled) THEN Get(app.ci_enabled) ELSE TRUE

\* app_config.get('idf_versions', global_idf_versions)
PerAppIdfVersions(cfg, app) ==
    IF Has(app.idf_versions) THEN Get(app.idf_versions) ELSE GlobalIdfVersions(cfg)

\* NestedBuildTypes that takes the first set for every version
NestedBuildTypesFirstOnly(app_build_types, i) == app_build_types[1].items

\* the nested format: the set at 1-based position i, or the fallback
NestedBuildTypes(app_build_types, i) ==
    IF i <= Len(app_build_types)
    THEN app_build_types[i].items
    ELSE DefaultBuildTypes

\* AllowedBuildTypes that looks the build types up by the position i of the
\* version in the app's list
AllowedBuildTypesByPosition(cfg, i, idf_version) ==
    BuildTypesForIndex(GlobalBuildTypesPerIdf(cfg), i)

\* allowed_build_types = idf_to_build_types.get(idf_version, ['Debug', 'Release'])
AllowedBuildTypes(cfg, i, idf_version) ==
    LET map == IdfToBuildTypes(cfg)
    IN  IF idf_version \in DOMAIN map THEN map[idf_version] ELSE DefaultBuildTypes

\* The build types of one iteration of the version loop (i is the 1-based
\* position of idf_version in the app's version list).  raised is TRUE when
\* app_build_types[0] is evaluated on an empty list (IndexError).
BuildTypesAt(cfg, app, i, idf_version) ==
    IF Has(app.build_types)
    THEN LET abt == Get(app.build_types)
         IN  IF Len(abt) = 0
             THEN [raised |-> TRUE, types |-> <<>>]
             ELSE IF abt[1].kind = "list"
                  THEN [raised |-> FALSE, types |-> NestedBuildTypes(abt, i)]
                  ELSE [raised |-> FALSE,
                        types |-> [j \in 1..Len(abt) |-> abt[j].str]]
    ELSE [raised |-> FALSE, types |-> AllowedBuildTypes(cfg, i, idf_version)]

\* effective_combinations of one app, each pair with the positions (i, j) of
\* its version and of its build type (the positions are bookkeeping of the
\* model: the code keeps the pair only)
EffectiveCombinations(cfg, app) ==
    LET versions == PerAppIdfVersions(cfg, app)
        at(i) == BuildTypesAt(cfg, app, i, versions[i])
    IN  [raised |-> \E i \in 1..Len(versions) : at(i).raised,
         combos |-> Concat([i \in 1..Len(versions) |->
                       [j \in 1..Len(at(i).types) |->
                           [idf_version |-> versions[i],
                            build_type |-> at(i).types[j],
                            i |-> i, j |-> j]]])]

\* ConfigSource that looks at build_types only
ConfigSourceBuildTypesOnly(app) ==
    IF Has(app.build_types) THEN "app" ELSE "global"

ConfigSource(app) ==
    IF Has(app.build_types) \/ Has(app.idf_versions) THEN "app" ELSE "global"

DockerSafe(idf_version) == Replace(idf_version, "/", "-")

\* FileSafe that leaves the dots
FileSafeSlashOnly(idf_version) == Replace(idf_version, "/", "_")

FileSafe(idf_version) == Replace(Replace(idf_version, "/", "_"), ".", "_")

Candidate(cfg, app, combo) ==
    [idf_version |-> combo.idf_version,
     idf_version_docker |-> DockerSafe(combo.idf_version),
     idf_version_file |-> FileSafe(combo.idf_version),
     build_type |-> combo.build_type,
     app_name |-> app.name,
     target |-> Target(cfg),
     config_source |-> ConfigSource(app)]

\* The entries one app appends to include, each with where it was generated
\* (app position a, version position i, build-type position j).  A truthy
\* exclude_combinations that is not a list raises on the first candidate.
AppEntries(cfg, a) ==
    LET app == Get(cfg.apps)[a]
        ec == EffectiveCombinations(cfg, app)
        excl == ExcludeCombinations(cfg)
        gen == [c \in 1..Len(ec.combos) |->
                   [entry |-> Candidate(cfg, app, ec.combos[c]),
                    at |-> <<a, ec.combos[c].i, ec.combos[c].j>>]]
        Kept(g) == ~IsExcluded(excl.items, g.entry)
    IN  IF ~CiEnabled(app) THEN [raised |-> FALSE, gen |-> <<>>]
        ELSE IF ec.raised THEN [raised |-> TRUE, gen |-> <<>>]
        ELSE IF excl.kind # "list" /\ Len(gen) > 0
             THEN [raised |-> TRUE, gen |-> <<>>]
        ELSE [raised |-> FALSE, gen |-> SelectSeq(gen, Kept)]

\* generate_matrix: raised is TRUE when the call ends in an uncaught
\* exception (no metadata or apps key, or an app raised), and then nothing
\* is returned
GenerateMatrix(cfg) ==
    IF ~Has(cfg.metadata) \/ ~Has(cfg.apps)
    THEN [raised |-> TRUE, include |-> <<>>, origin |-> <<>>]
    ELSE LET n == Len(Get(cfg.apps))
             per == [a \in 1..n |-> AppEntries(cfg, a)]
             gen == Concat([a \in 1..n |-> per[a].gen])
         IN  IF \E a \in 1..n : per[a].raised
             THEN [raised |-> TRUE, include |-> <<>>, origin |-> <<>>]
             ELSE [raised |-> FALSE,
                   include |-> [k \in 1..Len(gen) |-> gen[k].entry],
                   origin |-> [k \in 1..Len(gen) |-> gen[k].at]]

----------------------------------------------------------------------------
(* validate_config *)

Msg(text, app) == [text |-> text, app |-> app]

\* the errors and warnings one app adds, in the order the code appends them
AppWarnings(app) ==
    (IF ~app.has_description THEN <<Msg("missing description", app.name)>> ELSE <<>>)
    \o (IF ~app.has_source_file THEN <<Msg("missing source_file", app.name)>> ELSE <<>>)

\* build_types is a list in every modelled document; its elements are str or
\* list of str, so of the element checks only the shape checks can fail
BuildTypesErrors(app) ==
    IF ~Has(app.build_types) THEN <<>>
    ELSE LET bt == Get(app.build_types)
         IN  IF bt # <<>> /\ bt[1].kind = "list"
             THEN Concat([i \in 1..Len(bt) |->
                     IF bt[i].kind # "list"
                     THEN <<Msg("build_types[i] is not a list", app.name)>>
                     ELSE <<>>])
             ELSE IF \A i \in 1..Len(bt) : bt[i].kind = "str"
                  THEN <<>>
                  ELSE <<Msg("build_types contains non-string values", app.name)>>

\* ExcludeErrors that reports nothing
ExcludeErrorsNever(cfg) == <<>>

ExcludeErrors(cfg) ==
    IF ~Has(cfg.ci_config) THEN <<>>
    ELSE LET cc == Get(cfg.ci_config)
         IN  IF ~Has(cc.exclude_combinations) THEN <<>>
             ELSE LET excludes == Get(cc.exclude_combinations)
                  IN  IF Truthy(excludes) /\ excludes.kind # "list"
                      THEN <<Msg("ci_config.exclude_combinations is not a list", "")>>
                      ELSE <<>>

\* validate_config(config): (len(errors) == 0, errors, warnings)
ValidateConfig(cfg) ==
    LET missing ==
            (IF ~Has(cfg.metadata)
             THEN <<Msg("Missing required 'metadata' section", "")>> ELSE <<>>)
            \o (IF ~Has(cfg.apps)
                THEN <<Msg("Missing required 'apps' section", "")>> ELSE <<>>)
    IN  IF missing # <<>>
        THEN [ok |-> FALSE, errors |-> missing, warnings |-> <<>>]
        ELSE LET m == Get(cfg.metadata)
                 apps == Get(cfg.apps)
                 mwarn ==
                     (IF ~Has(m.idf_versions)
                      THEN <<Msg("No 'idf_versions' specified in metadata, using default", "")>>
                      ELSE <<>>)
                     \o (IF ~Has(m.build_types)
                         THEN <<Msg("No 'build_types' specified in metadata, using default", "")>>
                         ELSE <<>>)
                     \o (IF ~Has(m.target)
                         THEN <<Msg("No 'target' specified in metadata, using default", "")>>
                         ELSE <<>>)
                 aerr == IF apps = <<>>
                         THEN <<Msg("No apps defined in configuration", "")>>
                         ELSE Concat([a \in 1..Len(apps) |-> BuildTypesErrors(apps[a])])
                 awarn == Concat([a \in 1..Len(apps) |-> AppWarnings(apps[a])])
                 errs == aerr \o ExcludeErrors(cfg)
             IN  [ok |-> Len(errs) = 0, errors |-> errs, warnings |-> mwarn \o awarn]

----------------------------------------------------------------------------
(* main *)

VARIABLES
    config,         \* the document load_config returns (the same on both loads)
    args,           \* the parsed command line
    pc,             \* where main is
    validation,     \* None, or Some of what validate_config returned
    matrix_config,  \* None, or Some of the include list of matrix_config
    gen_origin,     \* for each entry generate_matrix returned, where it was generated
    gen_called,     \* generate_matrix has been called
    stdout,         \* the lines printed, a matrix as the line "<matrix>"
    printed,        \* None, or Some of the include list printed to stdout
    outfile,        \* None, or Some of the include list written to args.output
    exit_code       \* -1 while the run lasts, then the process's exit status

vars == <<config, args, pc, validation, matrix_config, gen_origin, gen_called,
          stdout, printed, outfile, exit_code>>

\* ValidationAborts that lets every document through
ValidationNeverAborts(res) == FALSE

\* sys.exit(1) is reached exactly when validate_config's first result is false
ValidationAborts(res) == ~res.ok

\* "if args.validate:" with its body
Validate ==
    /\ pc = "loaded"
    /\ IF args.validate
       THEN LET res == ValidateConfig(config)
            IN  /\ validation' = Some(res)
                /\ IF ValidationAborts(res)
                   THEN /\ stdout' = stdout
                                \o <<Msg("Configuration validation failed:", "")>>
                                \o res.errors
                        /\ pc' = "exit"
                        /\ exit_code' = 1
                   ELSE /\ stdout' = stdout
                                \o <<Msg("Configuration validation passed", "")>>
                                \o (IF res.warnings # <<>>
                                    THEN <<Msg("warnings found", "")>> ELSE <<>>)
                        /\ pc' = "validated"
                        /\ exit_code' = exit_code
       ELSE /\ pc' = "validated"
            /\ UNCHANGED <<validation, stdout, exit_code>>
    /\ UNCHANGED <<config, args, matrix_config, gen_origin, gen_called, printed, outfile>>

\* matrix_config = generate_matrix(args.project_path); an uncaught exception
\* ends the process with status 1
Generate ==
    /\ pc = "validated"
    /\ gen_called' = TRUE
    /\ LET res == GenerateMatrix(config)
       IN  IF res.raised
           THEN /\ pc' = "exit"
                /\ exit_code' = 1
                /\ UNCHANGED <<matrix_config, gen_origin>>
           ELSE /\ pc' = "generated"
                /\ matrix_config' = Some(res.include)
                /\ gen_origin' = res.origin
                /\ exit_code' = exit_code
    /\ UNCHANGED <<config, args, validation, stdout, printed, outfile>>

\* "if args.filter:": the option is given and its string is not empty
FilterGiven(a) == Has(a.filter) /\ Get(a.filter) # ""

\* FilterMatrix that keeps every entry
FilterMatrixKeepsAll(include, name) == include

\* [entry for entry in matrix_config['include'] if entry['app_name'] == args.filter]
FilterMatrix(include, name) ==
    LET Match(entry) == entry.app_name = name
    IN  SelectSeq(include, Match)

\* "if args.filter:" with its body
Filter ==
    /\ pc = "generated"
    /\ pc' = "filtered"
    /\ matrix_config' = IF FilterGiven(args)
                        THEN Some(FilterMatrix(Get(matrix_config), Get(args.filter)))
                        ELSE matrix_config
    /\ UNCHANGED <<config, args, validation, gen_origin, gen_called, stdout,
                   printed, outfile, exit_code>>

\* the output to args.output or to stdout, and the return from main
Output ==
    /\ pc = "filtered"
    /\ pc' = "exit"
    /\ exit_code' = 0
    /\ IF args.output
       THEN /\ outfile' = matrix_config
            /\ stdout' = stdout \o <<Msg("Matrix written to", "")>>
            /\ printed' = printed
       ELSE /\ printed' = matrix_config
            /\ stdout' = stdout \o <<Msg("<matrix>", "")>>
            /\ outfile' = outfile
    /\ UNCHANGED <<config, args, validation, matrix_config, gen_origin, gen_called>>

Next == Validate \/ Generate \/ Filter \/ Output

\* the state when main has parsed its arguments and loaded the document
InitOf(Configs, Args) ==
    /\ config \in Configs
    /\ args \in Args
    /\ pc = "loaded"
    /\ validation = None
    /\ matrix_config = None
    /\ gen_origin = <<>>
    /\ gen_called = FALSE
    /\ stdout = <<>>
    /\ printed = None
    /\ outfile = None
    /\ exit_code = -1

----------------------------------------------------------------------------
(* The documents and command lines explored *)

SeqsUpTo(S, n) == UNION {[1..k -> S] : k \in 0..n}
NonEmptySeqsUpTo(S, n) == UNION {[1..k -> S] : k \in 1..n}

AppNames == <<"gpio_test", "adc_test", "i2c_test", "pwm_test">>
VersionIds == {V54, V55}
BuildTypeNames == {"Debug", "Release"}

VersionLists == SeqsUpTo(VersionIds, MaxLen)
BuildTypeLists == SeqsUpTo(BuildTypeNames, MaxLen)
\* the build-type sets a nested list is made of
InnerLists == {<<>>, <<"Release">>, <<"Release", "Debug">>}

Flat(l) == [i \in DOMAIN l |-> StrElem(l[i])]
Nested(ll) == [i \in DOMAIN ll |-> ListElem(ll[i])]
FlatValues == {Flat(l) : l \in BuildTypeLists}
NestedValues == {Nested(ll) : ll \in NonEmptySeqsUpTo(InnerLists, MaxLen)}

Opt(S) == {None} \cup {Some(x) : x \in S}

AppConfig(ci, iv, bt) ==
    [ci_enabled |-> ci, idf_versions |-> iv, build_types |-> bt,
     has_description |-> TRUE, has_source_file |-> TRUE]

AppConfigs(CIs, IVs, BTs) == {AppConfig(ci, iv, bt) : ci \in CIs, iv \in IVs, bt \in BTs}

\* an app with no override, and a disabled app with overrides
PlainApps == {AppConfig(Some(TRUE), None, None),
              AppConfig(Some(FALSE), Some(<<V54>>), Some(Flat(<<"Debug">>)))}

\* the app lists of at most MaxApps apps of which at most one is not plain
AppLists(Rich) ==
    UNION {[1..n -> PlainApps]
           \cup {[s EXCEPT ![k] = r] : s \in [1..n -> PlainApps], k \in 1..n, r \in Rich}
           : n \in 0..MaxApps}

\* the apps mapping: the app at position k has the key AppNames[k]
Named(apps) ==
    [k \in 1..Len(apps) |->
        [name |-> AppNames[k],
         ci_enabled |-> apps[k].ci_enabled,
         idf_versions |-> apps[k].idf_versions,
         build_types |-> apps[k].build_types,
         has_description |-> apps[k].has_description,
         has_source_file |-> apps[k].has_source_file]]

Metadata(iv, bt, tg) == [idf_versions |-> iv, build_types |-> bt, target |-> tg]

Metadatas(IVs, BTs, TGs) == {Metadata(iv, bt, tg) : iv \in IVs, bt \in BTs, tg \in TGs}

RuleList(rules) == [kind |-> "list", items |-> rules, truthy |-> rules # <<>>]
CiConfig(excl) == Some([exclude_combinations |-> excl])

Documents(Metas, Apps, CiConfigs) ==
    {[metadata |-> Some(m), apps |-> Some(Named(as)), ci_config |-> cc] :
        m \in Metas, as \in Apps, cc \in CiConfigs}

\* {app_name: gpio_test, build_type: Debug}
RuleAppDebug == [app_name |-> AppNames[1], build_type |-> "Debug"]

NoRules == {None}
OneRule == {None, CiConfig(Some(RuleList(<<RuleAppDebug>>)))}

Arguments(Vs, Fs, Os) == {[validate |-> v, filter |-> f, output |-> o] : v \in Vs, f \in Fs, o \in Os}
PlainRun == Arguments({FALSE}, {None}, {FALSE})

\* two global versions, the build types of the second one left to the default
SmallMetadatas ==
    Metadatas({None, Some(<<V54, V55>>)},
              {Some(<<<<"Release">>>>)},
              {None})

Init ==
    InitOf(Documents(SmallMetadatas,
                     AppLists(AppConfigs({None, Some(FALSE)},
                                         Opt(VersionLists),
                                         Opt(FlatValues \cup NestedValues))),
                     OneRule),
           PlainRun)

Spec == Init /\ [][Next]_vars

\* The documents that differ in their exclusion rules: rules that name one
\* field, two fields, a field no entry has, and no field at all
Rules ==
    {RuleAppDebug,
     [app_name |-> AppNames[2]],
     [build_type |-> "Release"],
     [idf_version |-> V54],
     [config_source |-> "global"],
     [chip |-> "esp32"],
     [app_name |-> AppNames[1], chip |-> "esp32"],
     [f \in {} |-> ""]}

NullValue == [kind |-> "null", items |-> <<>>, truthy |-> FALSE]

RuleConfigs ==
    {None, CiConfig(None), CiConfig(Some(NullValue))}
    \cup {CiConfig(Some(RuleList(l))) : l \in SeqsUpTo(Rules, MaxRules)}

InitExcl ==
    InitOf(Documents(Metadatas({Some(<<V54, V55>>)},
                               {Some(<<<<"Debug", "Release">>>>)},
                               {None}),
                     AppLists(AppConfigs({None},
                                         {None, Some(<<V54>>)},
                                         {None, Some(Flat(<<"Debug">>))})),
                     RuleConfigs),
           PlainRun)

SpecExcl == InitExcl /\ [][Next]_vars

\* The documents that differ in their global version list and global
\* build-type sequence, the apps with no override or with versions of their own
InitGlobal ==
    InitOf(Documents(Metadatas(Opt(VersionLists),
                               Opt(SeqsUpTo(InnerLists, MaxLen)),
                               {None}),
                     AppLists({AppConfig(None, Some(<<V55, V54>>), None)}),
                     OneRule),
           PlainRun)

SpecGlobal == InitGlobal /\ [][Next]_vars

\* The documents that differ in the characters of their version
\* identifiers: two global versions made of the characters the
\* sanitization rewrites or produces, and the release branch written with
\* a slash, with a dash and with an underscore
IdChars == {"5", "/", ".", "-", "_"}
Identifiers == NonEmptySeqsUpTo(IdChars, MaxIdLen)
V55Dash == <<"r","e","l","e","a","s","e","-","v","5",".","5">>
V55Underscore == <<"r","e","l","e","a","s","e","_","v","5",".","5">>

InitSan ==
    InitOf(Documents(Metadatas({Some(<<v, w>>) : v, w \in Identifiers}
                                   \cup {Some(<<V55, V55Dash, V55Underscore>>)},
                               {None},
                               {None}),
                     {<<AppConfig(Some(TRUE), None, None)>>},
                     NoRules),
           PlainRun)

SpecSan == InitSan /\ [][Next]_vars

\* The runs that differ in their command line and in what the validator
\* finds: documents with and without the metadata and apps sections, with
\* and without the keys whose absence is a warning, and with an
\* exclude_combinations value that is a list, null, or a scalar
ScalarValue(t) == [kind |-> "scalar", items |-> <<>>, truthy |-> t]

RunCiConfigs ==
    {None, CiConfig(None), CiConfig(Some(RuleList(<<>>))),
     CiConfig(Some(RuleList(<<RuleAppDebug>>))), CiConfig(Some(NullValue)),
     CiConfig(Some(ScalarValue(TRUE))), CiConfig(Some(ScalarValue(FALSE)))}

RunApps ==
    AppLists({[AppConfig(None, None, None) EXCEPT !.has_description = FALSE],
              [AppConfig(None, None, None) EXCEPT !.has_source_file = FALSE],
              AppConfig(None, None, Some(Flat(<<>>))),
              AppConfig(None, Some(<<V54, V55>>), Some(Nested(<<<<"Release">>>>)))})

CompleteDocuments ==
    Documents(Metadatas({None, Some(<<V54, V55>>)},
                        {None, Some(<<<<"Release">>>>)},
                        {None, Some("esp32")}),
              RunApps, RunCiConfigs)

RunDocuments ==
    CompleteDocuments
    \cup {[d EXCEPT !.metadata = None] : d \in CompleteDocuments}
    \cup {[d EXCEPT !.apps = None] : d \in CompleteDocuments}
    \cup {[d EXCEPT !.metadata = None, !.apps = None] : d \in CompleteDocuments}

InitRun ==
    InitOf(RunDocuments,
           Arguments(BOOLEAN, {None, Some(""), Some(AppNames[1]), Some("unrelated")},
                     BOOLEAN))

SpecRun == InitRun /\ [][Next]_vars

----------------------------------------------------------------------------
(* Vocabulary of the properties *)

Apps == Get(config.apps)
\* generate_matrix has returned and main has not yet filtered its result
Returned == pc = "generated"
Matrix == Get(matrix_config)
\* generate_matrix has returned or raised, and main has gone no further
AfterGenerate == gen_called /\ (pc = "generated" \/ matrix_config = None)

DeclaredRules ==
    IF Has(config.ci_config) /\ Has(Get(config.ci_config).exclude_combinations)
       /\ Get(Get(config.ci_config).exclude_combinations).kind = "list"
    THEN Get(Get(config.ci_config).exclude_combinations).items
    ELSE <<>>
NoRulesDeclared == ~Has(config.ci_config)

Disabled(app) == Has(app.ci_enabled) /\ Get(app.ci_enabled) = FALSE
VersionsOf(app) ==
    IF Has(app.idf_versions) THEN Get(app.idf_versions) ELSE GlobalIdfVersions(config)
IsFlat(bt) == \A i \in 1..Len(bt) : bt[i].kind = "str"
IsNested(bt) == bt # <<>> /\ \A i \in 1..Len(bt) : bt[i].kind = "list"

RECURSIVE Flatten(_)
Flatten(ss) == IF ss = <<>> THEN <<>> ELSE Head(ss) \o Flatten(Tail(ss))

\* the (version, build type) pairs of the matrix entries of one app, in order
PairsOf(name) ==
    LET Mine(e) == e.app_name = name
        mine == SelectSeq(Matrix, Mine)
    IN  [k \in 1..Len(mine) |-> <<mine[k].idf_version, mine[k].build_type>>]

\* one version with each build type of a list, in list order
Cross(v, types) == [j \in 1..Len(types) |-> <<v, types[j]>>]

\* the last position of the global version list that holds the identifier v
LastPositionOf(v) ==
    CHOOSE j \in 1..Len(GlobalIdfVersions(config)) :
        /\ GlobalIdfVersions(config)[j] = v
        /\ \A k \in (j + 1)..Len(GlobalIdfVersions(config)) :
               GlobalIdfVersions(config)[k] # v

\* the build types at a position of the global build-type sequence
GlobalTypesAt(j) ==
    IF j <= Len(GlobalBuildTypesPerIdf(config))
    THEN GlobalBuildTypesPerIdf(config)[j] ELSE <<"Debug", "Release">>

\* the build types step 3c of the resolution gives the version at position i
\* of an app's version list
TypesAt(app, i) ==
    IF Has(app.build_types)
    THEN LET bt == Get(app.build_types)
         IN  IF IsNested(bt)
             THEN IF i <= Len(bt) THEN bt[i].items ELSE <<"Debug", "Release">>
             ELSE [j \in 1..Len(bt) |-> bt[j].str]
    ELSE IF \E j \in 1..Len(GlobalIdfVersions(config)) :
                GlobalIdfVersions(config)[j] = VersionsOf(app)[i]
         THEN GlobalTypesAt(LastPositionOf(VersionsOf(app)[i]))
         ELSE <<"Debug", "Release">>

LexLess(o, p) ==
    \/ o[1] < p[1]
    \/ o[1] = p[1] /\ o[2] < p[2]
    \/ o[1] = p[1] /\ o[2] = p[2] /\ o[3] < p[3]

----------------------------------------------------------------------------
(* C1 *)

WithCiEnabledExplicit(cfg) ==
    [cfg EXCEPT !.apps = Some([a \in 1..Len(Get(cfg.apps)) |->
        IF Has(Get(cfg.apps)[a].ci_enabled) THEN Get(cfg.apps)[a]
        ELSE [Get(cfg.apps)[a] EXCEPT !.ci_enabled = Some(TRUE)]])]

\* C1: the matrix generate_matrix returns has no entry of an app whose
\* ci_enabled is false, whatever the app and the document declare besides;
\* an app without ci_enabled gets the entries it would get with ci_enabled true.
C1_DisabledAppHasNoEntry ==
    Returned =>
        /\ \A a \in 1..Len(Apps) :
               Disabled(Apps[a]) =>
                   \A k \in 1..Len(Matrix) : Matrix[k].app_name # Apps[a].name
        /\ Matrix = GenerateMatrix(WithCiEnabledExplicit(config)).include

\* a disabled app with its own versions and build types beside an app that
\* has no ci_enabled key and entries in the matrix, with an exclusion rule
C1_Witness ==
    /\ Returned
    /\ DeclaredRules # <<>>
    /\ \E a \in 1..Len(Apps) :
           /\ Disabled(Apps[a])
           /\ Has(Apps[a].idf_versions) /\ Get(Apps[a].idf_versions) # <<>>
           /\ Has(Apps[a].build_types) /\ Get(Apps[a].build_types) # <<>>
    /\ \E a \in 1..Len(Apps) :
           /\ ~Has(Apps[a].ci_enabled)
           /\ \E k \in 1..Len(Matrix) : Matrix[k].app_name = Apps[a].name

----------------------------------------------------------------------------
(* C2 *)

AppNamed(name) == CHOOSE a \in 1..Len(Apps) : Apps[a].name = name

\* C2: every entry of the returned matrix has config_source "global" when its
\* app declares neither idf_versions nor build_types and "app" when it
\* declares at least one of them.
C2_ConfigSource ==
    Returned =>
        \A k \in 1..Len(Matrix) :
            LET app == Apps[AppNamed(Matrix[k].app_name)]
            IN  /\ (~Has(app.idf_versions) /\ ~Has(app.build_types))
                       => Matrix[k].config_source = "global"
                /\ (Has(app.idf_versions) \/ Has(app.build_types))
                       => Matrix[k].config_source = "app"

\* a matrix with an entry of an app without overrides, one of an app that
\* declares idf_versions only and one of an app that declares build_types only
C2_Witness ==
    /\ Returned
    /\ \E k \in 1..Len(Matrix) :
           LET app == Apps[AppNamed(Matrix[k].app_name)]
           IN  ~Has(app.idf_versions) /\ ~Has(app.build_types)
    /\ \E k \in 1..Len(Matrix) :
           LET app == Apps[AppNamed(Matrix[k].app_name)]
           IN  Has(app.idf_versions) /\ ~Has(app.build_types)

----------------------------------------------------------------------------
(* C3 *)

\* C3: with no exclusion rules, an enabled app whose build_types is a flat
\* list of strings gets, for every version of its version list, the entries
\* of the full flat list in list order.
C3_FlatListForEveryVersion ==
    (AfterGenerate /\ NoRulesDeclared) =>
        \A a \in 1..Len(Apps) :
            (/\ ~Disabled(Apps[a])
             /\ Has(Apps[a].build_types)
             /\ IsFlat(Get(Apps[a].build_types)))
            => /\ Has(matrix_config)
               /\ PairsOf(Apps[a].name) =
                      Flatten([i \in 1..Len(VersionsOf(Apps[a])) |->
                          Cross(VersionsOf(Apps[a])[i],
                                [j \in 1..Len(Get(Apps[a].build_types)) |->
                                    Get(Apps[a].build_types)[j].str])])

\* the same for the flat lists that have at least one element
C3_NonEmptyFlatList ==
    (Returned /\ NoRulesDeclared) =>
        \A a \in 1..Len(Apps) :
            (/\ ~Disabled(Apps[a])
             /\ Has(Apps[a].build_types)
             /\ Get(Apps[a].build_types) # <<>>
             /\ IsFlat(Get(Apps[a].build_types)))
            => PairsOf(Apps[a].name) =
                      Flatten([i \in 1..Len(VersionsOf(Apps[a])) |->
                          Cross(VersionsOf(Apps[a])[i],
                                [j \in 1..Len(Get(Apps[a].build_types)) |->
                                    Get(Apps[a].build_types)[j].str])])

----------------------------------------------------------------------------
(* C4 *)

\* C4: with no exclusion rules, an enabled app whose build_types is a list of
\* lists gets, for the version at position i of its version list, the build
\* types of the nested list at position i, and Debug then Release when the
\* nested list has no position i.
C4_NestedListByPosition ==
    (Returned /\ NoRulesDeclared) =>
        \A a \in 1..Len(Apps) :
            (/\ ~Disabled(Apps[a])
             /\ Has(Apps[a].build_types)
             /\ IsNested(Get(Apps[a].build_types)))
            => PairsOf(Apps[a].name) =
                   Flatten([i \in 1..Len(VersionsOf(Apps[a])) |->
                       Cross(VersionsOf(Apps[a])[i],
                             IF i <= Len(Get(Apps[a].build_types))
                             THEN Get(Apps[a].build_types)[i].items
                             ELSE <<"Debug", "Release">>)])

\* an app with more versions than nested sets, the sets it has differing from
\* Debug then Release, and with entries in the matrix
C4_Witness ==
    /\ Returned /\ NoRulesDeclared
    /\ \E a \in 1..Len(Apps) :
           /\ ~Disabled(Apps[a])
           /\ Has(Apps[a].build_types)
           /\ IsNested(Get(Apps[a].build_types))
           /\ Len(VersionsOf(Apps[a])) > Len(Get(Apps[a].build_types))
           /\ Get(Apps[a].build_types)[1].items = <<"Release">>
           /\ Len(PairsOf(Apps[a].name)) = 3

----------------------------------------------------------------------------
(* C6 *)

\* C6: the returned matrix is in generation order: each entry is the entry of
\* one app position, version position and build-type position, and these
\* positions increase along the matrix, the app position counting first, then
\* the version position, then the build-type position; what the exclusion
\* rules remove leaves the rest in that order.
C6_GenerationOrder ==
    Returned =>
        /\ Len(gen_origin) = Len(Matrix)
        /\ \A k \in 1..Len(Matrix) :
               LET a == gen_origin[k][1]
                   i == gen_origin[k][2]
                   j == gen_origin[k][3]
               IN  /\ a \in 1..Len(Apps)
                   /\ Matrix[k].app_name = Apps[a].name
                   /\ i \in 1..Len(VersionsOf(Apps[a]))
                   /\ Matrix[k].idf_version = VersionsOf(Apps[a])[i]
                   /\ j \in 1..Len(TypesAt(Apps[a], i))
                   /\ Matrix[k].build_type = TypesAt(Apps[a], i)[j]
        /\ \A k, l \in 1..Len(Matrix) :
               k < l => LexLess(gen_origin[k], gen_origin[l])

\* a matrix with entries of two apps, of two versions of one app and of two
\* build types of one version, from which a rule has removed an entry
C6_Witness ==
    /\ Returned
    /\ \E k, l \in 1..Len(Matrix) : gen_origin[k][1] # gen_origin[l][1]
    /\ \E k, l \in 1..Len(Matrix) :
           gen_origin[k][1] = gen_origin[l][1] /\ gen_origin[k][2] # gen_origin[l][2]
    /\ \E k, l \in 1..Len(Matrix) :
           /\ gen_origin[k][1] = gen_origin[l][1]
           /\ gen_origin[k][2] = gen_origin[l][2]
           /\ gen_origin[k][3] # gen_origin[l][3]
    /\ Len(Matrix) < Len(GenerateMatrix([config EXCEPT !.ci_config = None]).include)

----------------------------------------------------------------------------
(* C7 *)

\* C7: an enabled app whose version list is empty gets no entry, a version
\* whose build-type set is empty (an empty build_types list of the app, an
\* empty nested set at the version's position, an empty global set) gets no
\* entry, and generate_matrix returns without an error.
C7_EmptyGivesNoEntries ==
    AfterGenerate =>
        \A a \in 1..Len(Apps) :
            ~Disabled(Apps[a]) =>
                /\ VersionsOf(Apps[a]) = <<>> =>
                       (Has(matrix_config) /\ PairsOf(Apps[a].name) = <<>>)
                /\ \A i \in 1..Len(VersionsOf(Apps[a])) :
                       TypesAt(Apps[a], i) = <<>> =>
                           /\ Has(matrix_config)
                           /\ \A k \in 1..Len(Matrix) :
                                  ~(gen_origin[k][1] = a /\ gen_origin[k][2] = i)

\* the same with the empty build_types list of an app left out
C7_ExceptEmptyAppList ==
    AfterGenerate =>
        \A a \in 1..Len(Apps) :
            (/\ ~Disabled(Apps[a])
             /\ \A b \in 1..Len(Apps) :
                    ~(Has(Apps[b].build_types) /\ Get(Apps[b].build_types) = <<>>))
            =>  /\ VersionsOf(Apps[a]) = <<>> =>
                       (Has(matrix_config) /\ PairsOf(Apps[a].name) = <<>>)
                /\ \A i \in 1..Len(VersionsOf(Apps[a])) :
                       TypesAt(Apps[a], i) = <<>> =>
                           /\ Has(matrix_config)
                           /\ \A k \in 1..Len(Matrix) :
                                  ~(gen_origin[k][1] = a /\ gen_origin[k][2] = i)

----------------------------------------------------------------------------
(* C5 *)

\* the candidates: what generate_matrix returns for the document without its
\* ci_config section
Candidates == GenerateMatrix([config EXCEPT !.ci_config = None]).include

EntryFields == {"idf_version", "idf_version_docker", "idf_version_file",
                "build_type", "app_name", "target", "config_source"}

\* a rule matches a candidate when every field it names is a field of the
\* candidate with an equal value
RuleCovers(rule, e) == \A f \in DOMAIN rule : f \in EntryFields /\ e[f] = rule[f]

\* C5: the returned matrix is the candidates that no exclusion rule matches,
\* and the rule {app_name: x, build_type: Debug} alone removes the entries of
\* app x with build type Debug, of every version, and no other entry.
C5_ExclusionRules ==
    Returned =>
        /\ LET Free(e) == \A r \in 1..Len(DeclaredRules) : ~RuleCovers(DeclaredRules[r], e)
           IN  Matrix = SelectSeq(Candidates, Free)
        /\ \A a \in 1..Len(AppNames) :
               DeclaredRules = <<[app_name |-> AppNames[a], build_type |-> "Debug"]>> =>
                   LET Other(e) == ~(e.app_name = AppNames[a] /\ e.build_type = "Debug")
                   IN  Matrix = SelectSeq(Candidates, Other)

\* a rule that names a field no entry has, followed by the rule of app
\* gpio_test and Debug, which has removed the Debug entries of two versions
\* and left the Release entries of gpio_test and the Debug entries of another app
C5_Witness ==
    /\ Returned
    /\ DeclaredRules = <<[chip |-> "esp32"], RuleAppDebug>>
    /\ Len(Candidates) >= Len(Matrix) + 2
    /\ \E k \in 1..Len(Matrix) :
           Matrix[k].app_name = AppNames[1] /\ Matrix[k].build_type = "Release"
    /\ \E k \in 1..Len(Matrix) :
           Matrix[k].app_name # AppNames[1] /\ Matrix[k].build_type = "Debug"

----------------------------------------------------------------------------
(* C8 *)

NoOverride(app) == ~Has(app.idf_versions) /\ ~Has(app.build_types)

\* C8 as stated: with no exclusion rules, an enabled app without overrides
\* gets, for the global version at every position i, the build types at
\* position i of the global build-type sequence, and Debug then Release when
\* the sequence has no position i.
C8_GlobalTypesByPosition ==
    (Returned /\ NoRulesDeclared) =>
        \A a \in 1..Len(Apps) :
            (~Disabled(Apps[a]) /\ NoOverride(Apps[a])) =>
                PairsOf(Apps[a].name) =
                    Flatten([i \in 1..Len(GlobalIdfVersions(config)) |->
                        Cross(GlobalIdfVersions(config)[i], GlobalTypesAt(i))])

\* C8 as amended: the position that counts is the last position j of the
\* global version list that holds the same identifier as position i (j = i
\* when the identifiers of the list are distinct).
C8_GlobalTypesByLastPosition ==
    (Returned /\ NoRulesDeclared) =>
        \A a \in 1..Len(Apps) :
            (~Disabled(Apps[a]) /\ NoOverride(Apps[a])) =>
                PairsOf(Apps[a].name) =
                    Flatten([i \in 1..Len(GlobalIdfVersions(config)) |->
                        Cross(GlobalIdfVersions(config)[i],
                              GlobalTypesAt(LastPositionOf(GlobalIdfVersions(config)[i])))])

\* an app without overrides in a document whose global version list is
\* longer than its build-type sequence and names one identifier twice
C8_Witness ==
    /\ Returned /\ NoRulesDeclared
    /\ Has(Get(config.metadata).idf_versions)
    /\ Has(Get(config.metadata).build_types)
    /\ Len(GlobalIdfVersions(config)) = 2
    /\ Len(GlobalBuildTypesPerIdf(config)) = 1
    /\ GlobalIdfVersions(config)[1] = GlobalIdfVersions(config)[2]
    /\ GlobalTypesAt(1) = <<"Release">>
    /\ \E a \in 1..Len(Apps) :
           /\ ~Disabled(Apps[a]) /\ NoOverride(Apps[a])
           /\ Len(PairsOf(Apps[a].name)) = 4

----------------------------------------------------------------------------
(* C9 *)

\* d is v with every character of From replaced by the character to
Rewritten(v, d, From, to) ==
    /\ Len(d) = Len(v)
    /\ \A i \in 1..Len(v) : d[i] = (IF v[i] \in From THEN to ELSE v[i])

\* every entry has the two forms of its version, and release/v5.5 gives
\* release-v5.5 and release_v5_5
SanitizedForms ==
    \A k \in 1..Len(Matrix) :
        /\ Rewritten(Matrix[k].idf_version, Matrix[k].idf_version_docker, {"/"}, "-")
        /\ Rewritten(Matrix[k].idf_version, Matrix[k].idf_version_file, {"/", "."}, "_")
        /\ Matrix[k].idf_version = V55 =>
               /\ Matrix[k].idf_version_docker = V55Dash
               /\ Matrix[k].idf_version_file =
                      <<"r","e","l","e","a","s","e","_","v","5","_","5">>

\* v and w differ only where both hold a character of Same
SameUpTo(v, w, Same) ==
    /\ Len(v) = Len(w)
    /\ \A i \in 1..Len(v) : v[i] = w[i] \/ (v[i] \in Same /\ w[i] \in Same)

\* C9 as stated: the two forms are the version with its slashes (and dots)
\* replaced, and entries of different versions never share a form.
C9_SanitizationInjective ==
    Returned =>
        /\ SanitizedForms
        /\ \A k, l \in 1..Len(Matrix) :
               Matrix[k].idf_version # Matrix[l].idf_version =>
                   /\ Matrix[k].idf_version_docker # Matrix[l].idf_version_docker
                   /\ Matrix[k].idf_version_file # Matrix[l].idf_version_file

\* C9 as amended: the two forms are the version with its slashes (and dots)
\* replaced; entries of one version share both forms; entries of different
\* versions share the docker form only when the versions differ solely where
\* one has a slash and the other a dash, and share the file form only when
\* they differ solely where both have a slash, a dot or an underscore.
C9_SanitizationUpToSeparators ==
    Returned =>
        /\ SanitizedForms
        /\ \A k, l \in 1..Len(Matrix) :
               /\ Matrix[k].idf_version = Matrix[l].idf_version =>
                      /\ Matrix[k].idf_version_docker = Matrix[l].idf_version_docker
                      /\ Matrix[k].idf_version_file = Matrix[l].idf_version_file
               /\ Matrix[k].idf_version_docker = Matrix[l].idf_version_docker =>
                      SameUpTo(Matrix[k].idf_version, Matrix[l].idf_version, {"/", "-"})
               /\ Matrix[k].idf_version_file = Matrix[l].idf_version_file =>
                      SameUpTo(Matrix[k].idf_version, Matrix[l].idf_version,
                               {"/", ".", "_"})

\* a matrix with release/v5.5, with a second version of the same docker
\* form and with a third version of the same file form
C9_Witness ==
    /\ Returned
    /\ \E k, l, m \in 1..Len(Matrix) :
           /\ Matrix[k].idf_version = V55
           /\ Matrix[l].idf_version # V55
           /\ Matrix[l].idf_version_docker = Matrix[k].idf_version_docker
           /\ Matrix[m].idf_version # V55
           /\ Matrix[m].idf_version_file = Matrix[k].idf_version_file

----------------------------------------------------------------------------
(* C10 *)

\* C10: when validate_config has reported an error, the run has ended with a
\* status other than 0, generate_matrix has not been called and no matrix has
\* gone to stdout or to the output file; when it has reported no error, with
\* or without warnings, the run goes on to the call of generate_matrix.
C10_ValidationGate ==
    /\ Has(validation) => args.validate
    /\ (Has(validation) /\ Get(validation).errors # <<>>) =>
           /\ pc = "exit"
           /\ exit_code > 0
           /\ ~gen_called
           /\ matrix_config = None
           /\ printed = None
           /\ outfile = None
           /\ \A k \in 1..Len(stdout) : stdout[k].text # "<matrix>"
    /\ (Has(validation) /\ Get(validation).errors = <<>>) =>
           /\ pc = "validated" => exit_code = -1
           /\ pc # "validated" => gen_called

\* a run asked to validate and to write a file, ended by an error of the
\* validator that came with warnings
C10_Witness ==
    /\ Has(validation)
    /\ Get(validation).errors # <<>>
    /\ Get(validation).warnings # <<>>
    /\ args.output
    /\ pc = "exit"

----------------------------------------------------------------------------
(* C11 *)

\* validate_config has run on a document with a metadata section, a
\* non-empty apps section and a ci_config section that has the key
\* exclude_combinations
ValidatedWithExcludes ==
    /\ Has(validation)
    /\ Has(config.metadata)
    /\ Has(config.apps) /\ Get(config.apps) # <<>>
    /\ Has(config.ci_config)
    /\ Has(Get(config.ci_config).exclude_combinations)

ExcludesValue == Get(Get(config.ci_config).exclude_combinations)

\* null, and the scalars Python takes for false, are the falsy values
Falsy(x) == x.kind = "null" \/ (x.kind = "scalar" /\ ~x.truthy)

NamesExcludes(errors) ==
    \E k \in 1..Len(errors) :
        errors[k].text = "ci_config.exclude_combinations is not a list"

\* C11 as stated: an exclude_combinations value that is not a list makes
\* validate_config return ok = false with an error that names
\* ci_config.exclude_combinations, and a list adds no such error.
C11_NonListIsAnError ==
    ValidatedWithExcludes =>
        /\ ExcludesValue.kind # "list" =>
               (~Get(validation).ok /\ NamesExcludes(Get(validation).errors))
        /\ ExcludesValue.kind = "list" => ~NamesExcludes(Get(validation).errors)

\* C11 as amended: the error is reported for the values that are not a list
\* and not falsy; a list, and a falsy value that is not a list (null, false,
\* 0, an empty string, an empty mapping), add no such error.
C11_TruthyNonListIsAnError ==
    ValidatedWithExcludes =>
        /\ (ExcludesValue.kind # "list" /\ ~Falsy(ExcludesValue)) =>
               (~Get(validation).ok /\ NamesExcludes(Get(validation).errors))
        /\ (ExcludesValue.kind = "list" \/ Falsy(ExcludesValue)) =>
               ~NamesExcludes(Get(validation).errors)

\* a document whose only fault is a truthy exclude_combinations that is not
\* a list, refused by the validator
C11_Witness ==
    /\ ValidatedWithExcludes
    /\ ExcludesValue.kind = "scalar" /\ ExcludesValue.truthy
    /\ Len(Get(validation).errors) = 1
    /\ pc = "exit"

----------------------------------------------------------------------------
(* C12 *)

\* the run has returned from main after its output
Completed == pc = "exit" /\ exit_code = 0

\* the include list of the matrix the run has emitted, printed or written
Emitted == IF args.output THEN Get(outfile) ELSE Get(printed)

\* the entries of the list that carry the app name, in the order of the list
EntriesOf(include, name) ==
    LET CarriesName(entry) == entry.app_name = name
    IN  SelectSeq(include, CarriesName)

\* the run got as far as the filter: generate_matrix has returned a matrix
Filtering == pc \in {"filtered", "exit"} /\ gen_called /\ Has(matrix_config)

\* C12 as stated: with a filter name given, the emitted include list is the
\* subsequence, in the original order, of the resolved matrix's entries whose
\* app_name is the filter name (empty when no entry has it), and the run
\* completes without error.
C12_FilterGivesSubsequence ==
    (Filtering /\ Has(args.filter)) =>
        /\ Get(matrix_config) = EntriesOf(GenerateMatrix(config).include, Get(args.filter))
        /\ pc = "exit" =>
               (Completed /\ Emitted = EntriesOf(GenerateMatrix(config).include,
                                                 Get(args.filter)))

\* C12 as amended: the same for a filter name that is not the empty string;
\* with the empty string as the filter name the emitted include list is the
\* whole resolved matrix.
C12_NonEmptyFilterGivesSubsequence ==
    (Filtering /\ Has(args.filter)) =>
        LET resolved == GenerateMatrix(config).include
            expected == IF Get(args.filter) = "" THEN resolved
                        ELSE EntriesOf(resolved, Get(args.filter))
        IN  /\ Get(matrix_config) = expected
            /\ pc = "exit" => (Completed /\ Emitted = expected)

\* a completed run whose filter kept some entries of the matrix and dropped
\* others
C12_Witness ==
    /\ Completed
    /\ Has(args.filter) /\ Get(args.filter) # ""
    /\ Emitted # <<>>
    /\ Len(Emitted) < Len(GenerateMatrix(config).include)

\* a completed run whose filter name is the name of no entry of a non-empty
\* matrix (this state is reached as well)
C12_UnmatchedFilter ==
    ~ (/\ Completed
       /\ Has(args.filter) /\ Get(args.filter) = "unrelated"
       /\ Emitted = <<>>
       /\ GenerateMatrix(config).include # <<>>)

----------------------------------------------------------------------------
(* C13 *)

\* the app declares idf_versions and no build_types
VersionsOnly(app) == Has(app.idf_versions) /\ ~Has(app.build_types)

OccursGlobally(v) ==
    \E j \in 1..Len(GlobalIdfVersions(config)) : GlobalIdfVersions(config)[j] = v

\* the build types the global mapping holds for an identifier: those of the
\* position the identifier has in the global version list (its last one when
\* the list repeats it), Debug then Release for an identifier not in the list
MappedTypes(v) ==
    IF OccursGlobally(v) THEN GlobalTypesAt(LastPositionOf(v))
    ELSE <<"Debug", "Release">>

\* the (version, build type) pairs of the candidates of one app, before the
\* exclusion rules are applied
CandidatePairsOf(name) ==
    LET Mine(e) == e.app_name = name
        mine == SelectSeq(Candidates, Mine)
    IN  [k \in 1..Len(mine) |-> <<mine[k].idf_version, mine[k].build_type>>]

\* C13: for an enabled app with idf_versions of its own and no build_types,
\* every version of the app's list is combined with exactly the build types
\* the global mapping holds for its identifier, whatever the position of the
\* version in the app's list, and with exactly Debug then Release when the
\* global version list does not hold the identifier.
C13_VersionsOnlyByIdentifier ==
    Returned =>
        \A a \in 1..Len(Apps) :
            (~Disabled(Apps[a]) /\ VersionsOnly(Apps[a])) =>
                LET versions == Get(Apps[a].idf_versions)
                    expected == Flatten([i \in 1..Len(versions) |->
                                    Cross(versions[i], MappedTypes(versions[i]))])
                IN  /\ CandidatePairsOf(Apps[a].name) = expected
                    /\ NoRulesDeclared => PairsOf(Apps[a].name) = expected

\* an app with versions of its own of which the first is at the second
\* position of the global list, with other build types than the first
\* position has
C13_Witness ==
    /\ Returned /\ NoRulesDeclared
    /\ GlobalIdfVersions(config) = <<V54, V55>>
    /\ GlobalTypesAt(1) = <<>> /\ GlobalTypesAt(2) = <<"Release">>
    /\ \E a \in 1..Len(Apps) :
           /\ ~Disabled(Apps[a]) /\ VersionsOnly(Apps[a])
           /\ Get(Apps[a].idf_versions) = <<V55, V54>>
           /\ PairsOf(Apps[a].name) = <<<<V55, "Release">>>>

\* an app with versions of its own of which one is not in the global list and
\* takes Debug then Release (this state is reached as well)
C13_AbsentIdentifier ==
    ~ (/\ Returned /\ NoRulesDeclared
       /\ GlobalIdfVersions(config) = <<V54>>
       /\ GlobalTypesAt(1) = <<"Release">>
       /\ \E a \in 1..Len(Apps) :
              /\ ~Disabled(Apps[a]) /\ VersionsOnly(Apps[a])
              /\ PairsOf(Apps[a].name) =
                     <<<<V55, "Debug">>, <<V55, "Release">>, <<V54, "Release">>>>)

----------------------------------------------------------------------------
(* C14 *)

\* validate_config has accepted the document, with or without warnings
Accepted == Has(validation) /\ Get(validation).ok

\* C14: every document validate_config accepts is resolved by
\* generate_matrix to completion: the call returns a matrix and raises no
\* error, also for an app whose build_types is an empty list and for an
\* exclude_combinations value that is not a list and that the validator lets
\* through.
C14_AcceptedIsResolved ==
    (Accepted /\ gen_called) =>
        /\ Has(matrix_config)
        /\ ~GenerateMatrix(config).raised
        /\ pc = "exit" => exit_code = 0

\* Leaving out the documents with an enabled app whose build_types is the
\* empty list and whose version list is not empty, every accepted document is
\* resolved to completion.
C14_ExceptEmptyAppList ==
    (/\ Accepted /\ gen_called
     /\ \A a \in 1..Len(Apps) :
            ~ (/\ ~Disabled(Apps[a])
               /\ Has(Apps[a].build_types) /\ Get(Apps[a].build_types) = <<>>
               /\ VersionsOf(Apps[a]) # <<>>)) =>
        /\ Has(matrix_config)
        /\ ~GenerateMatrix(config).raised
        /\ pc = "exit" => exit_code = 0

\* an accepted document with an exclude_combinations value that is not a
\* list, resolved to a matrix that is not empty (this state is reached)
C14_FalsyExcludesResolved ==
    ~ (/\ Accepted /\ Completed
       /\ Has(config.ci_config)
       /\ Has(Get(config.ci_config).exclude_combinations)
       /\ Get(Get(config.ci_config).exclude_combinations).kind = "scalar"
       /\ Emitted # <<>>)

====
